---- MODULE Spec2Model ----
(***************************************************************************)
(* Malaysia City Path Finder: the k-nearest-neighbour graph build, the     *)
(* breadth-first search (bfs_path of myr_bfs_app.py, bfs_task of           *)
(* multiprocessing_bfs.py) and the two "Find Path" benchmark handlers.     *)
(*                                                                         *)
(* A networkx Graph is modelled by what the code reads of it: the node     *)
(* order (iteration over G) and, per node, the insertion-ordered           *)
(* adjacency (iteration over G[v]), each entry carrying its weight.        *)
(* geodesic(..).kilometers is modelled by the squared planar distance of   *)
(* integer coordinates: the build only sorts by it and stores it.          *)
(***************************************************************************)
EXTENDS Integers, Sequences, FiniteSets, TLC

VARIABLES city_list,      \* list(city_coords.keys())
          G,              \* the graph built at start-up
          graph_data,     \* nx.node_link_data(G), what a worker is sent
          fn,             \* the search being run: "bfs_path" or "bfs_task"
          graph,          \* the graph that search iterates
          start, goal,    \* its arguments
          visited, queue, \* its locals
          ret,            \* its return value
          pc,             \* "idle", "search", "returned" or "KeyError"
          enqueued,       \* history: number of queue entries ever created
          expanded,       \* history: the vertices expanded, in order
          passes,         \* history: passes of the while loop so far
          mode,           \* which app runs: "sequential" or "parallel"
          start_city, end_city,   \* the two selectboxes
          app,            \* "idle", or "pool" while pool.map is outstanding
          task,           \* per task of task_args: "pending", "running", "done"
          results,        \* per task: the value bfs_task returned
          calls,          \* history: searches invoked by the current request
          warning,        \* st.warning shown by the current request
          session_state   \* st.session_state: <<>> or <<path_result>>

vars == <<city_list, G, graph_data, fn, graph, start, goal, visited, queue, ret, pc,
          enqueued, expanded, passes, mode, start_city, end_city, app, task,
          results, calls, warning, session_state>>

builtVars == <<city_list, G, graph_data>>
searchVars == <<fn, graph, start, goal, visited, queue, ret, pc, enqueued, expanded,
               passes>>
appVars == <<mode, start_city, end_city, app, task, results, calls, warning, session_state>>

-----------------------------------------------------------------------------
(* Bounds of the model *)

\* the largest number of cities the searches are run on
MaxCities == 4

\* the largest number of cities the benchmark handlers are run on
MaxAppCities == 3

\* the largest number of cities the two apps are compared on
MaxCompareCities == 5

\* the coordinates (lat, lng) the cities are placed at; several cities may share one
Sites == {<<0, 0>>, <<0, 1>>, <<1, 2>>}

\* the city names, in the order my.json lists them
CityNames == <<"A", "B", "C", "D", "E", "F", "G">>

\* an identifier that is no city
Unknown == "Z"

\* Python's None, and the "no path" result
None == <<>>

N_NEIGHBORS == 3

\* the runs of one benchmark (10_000 in the apps)
N_RUNS == 2

\* multiprocessing.cpu_count(), the size of the pool
NumWorkers == 2

-----------------------------------------------------------------------------
(* Helpers *)

Range(s) == {s[i] : i \in 1..Len(s)}

Min(a, b) == IF a < b THEN a ELSE b

Front(s) == SubSeq(s, 1, Len(s) - 1)

Last(s) == s[Len(s)]

\* TRUE; a fold tests it on its accumulator so that TLC computes the accumulator
\* at every step of the fold instead of nesting the steps
Computed(v) == v = v

-----------------------------------------------------------------------------
(* networkx.Graph *)

EmptyGraph == [node |-> <<>>, adj |-> <<>>]

HasNode(g, n) == n \in Range(g.node)

\* G.add_node(n)
add_node(g, n) ==
    IF HasNode(g, n) THEN g
    ELSE [node |-> Append(g.node, n), adj |-> (n :> <<>>) @@ g.adj]

Nbrs(g, u) == [i \in 1..Len(g.adj[u]) |-> g.adj[u][i].nbr]

\* self._adj[u][v] = datadict storing an entry per call, as a MultiGraph would
SetAdjAppend(g, u, v, w) ==
    [g EXCEPT !.adj[u] = Append(g.adj[u], [nbr |-> v, weight |-> w])]

\* self._adj[u][v] = datadict: a new key goes last, a present key keeps its place
SetAdj(g, u, v, w) ==
    LET row == g.adj[u]
        at  == {i \in 1..Len(row) : row[i].nbr = v}
        new == IF at # {}
               THEN [row EXCEPT ![CHOOSE i \in at : TRUE] = [nbr |-> v, weight |-> w]]
               ELSE Append(row, [nbr |-> v, weight |-> w])
    IN  [g EXCEPT !.adj[u] = new]

\* G.add_edge(u, v, weight=w)
add_edge(g, u, v, w) ==
    SetAdj(SetAdj(add_node(add_node(g, u), v), u, v, w), v, u, w)

-----------------------------------------------------------------------------
(* The graph build loop *)

\* geodesic(a, b).kilometers
Dist(a, b) == (a[1] - b[1]) * (a[1] - b[1]) + (a[2] - b[2]) * (a[2] - b[2])

\* distances.append((other, dist)) for every other city, in city_list order
Distances(city, cities, coords) ==
    LET others == SelectSeq(cities, LAMBDA o : o # city)
    IN  [i \in 1..Len(others) |->
           [other |-> others[i], dist |-> Dist(coords[city], coords[others[i]])]]

\* x placed behind every entry of the sorted s that is not farther than x
InsertStable(s, x) ==
    LET p == Cardinality({i \in 1..Len(s) : s[i].dist <= x.dist})
    IN  SubSeq(s, 1, p) \o <<x>> \o SubSeq(s, p + 1, Len(s))

\* the sort left out: the distances stay in city_list order
SortByDistUnsorted(s) == s

RECURSIVE SortByDist(_)
\* distances.sort(key=lambda x: x[1]): ascending and stable
SortByDist(s) ==
    IF Len(s) = 0 THEN <<>> ELSE InsertStable(SortByDist(Front(s)), Last(s))

RECURSIVE AddEdges(_, _, _)
\* for neighbor, dist in distances[:k]: G.add_edge(city, neighbor, weight=dist)
AddEdges(g, city, chosen) ==
    IF Computed(g) /\ Len(chosen) = 0 THEN g
    ELSE AddEdges(add_edge(g, city, chosen[1].other, chosen[1].dist), city, Tail(chosen))

\* one iteration of "for city in city_list"
BuildCity(g, city, cities, coords, k) ==
    LET distances == SortByDist(Distances(city, cities, coords))
    IN  AddEdges(add_node(g, city), city, SubSeq(distances, 1, Min(k, Len(distances))))

RECURSIVE BuildFrom(_, _, _, _, _)
BuildFrom(g, i, cities, coords, k) ==
    IF Computed(g) /\ i > Len(cities) THEN g
    ELSE BuildFrom(BuildCity(g, cities[i], cities, coords, k), i + 1, cities, coords, k)

\* G = nx.Graph() and the whole build loop
BuildGraph(cities, coords, k) == BuildFrom(EmptyGraph, 1, cities, coords, k)

-----------------------------------------------------------------------------
(* nx.node_link_data and nx.node_link_graph *)

\* G.edges(data=True): per node in node order, its adjacency entries whose
\* other end is not an earlier node
EdgesOf(g, i) ==
    LET n    == g.node[i]
        seen == {g.node[j] : j \in 1..(i - 1)}
        keep == SelectSeq(g.adj[n], LAMBDA e : e.nbr \notin seen)
    IN  [j \in 1..Len(keep) |->
           [source |-> n, target |-> keep[j].nbr, weight |-> keep[j].weight]]

RECURSIVE EdgeView(_, _)
EdgeView(g, i) ==
    IF i > Len(g.node) THEN <<>> ELSE EdgesOf(g, i) \o EdgeView(g, i + 1)

\* graph_data = nx.node_link_data(G, edges="edges")
node_link_data(g) == [nodes |-> g.node, edges |-> EdgeView(g, 1)]

RECURSIVE AddNodesFrom(_, _)
AddNodesFrom(g, ns) ==
    IF Computed(g) /\ Len(ns) = 0 THEN g ELSE AddNodesFrom(add_node(g, ns[1]), Tail(ns))

RECURSIVE AddEdgesFrom(_, _)
AddEdgesFrom(g, es) ==
    IF Computed(g) /\ Len(es) = 0 THEN g
    ELSE AddEdgesFrom(add_edge(g, es[1].source, es[1].target, es[1].weight), Tail(es))

\* graph = nx.node_link_graph(graph_data, edges="edges")
node_link_graph(data) == AddEdgesFrom(AddNodesFrom(EmptyGraph, data.nodes), data.edges)

-----------------------------------------------------------------------------
(* The search: bfs_path and bfs_task share this body *)

\* visited = set(); queue = [(start, [start])]
BfsEnter(s) ==
    [visited |-> {}, queue |-> <<[vertex |-> s, path |-> <<s>>]>>,
     ret |-> None, pc |-> "search", enqueued |-> 1, expanded |-> <<>>,
     passes |-> 0]

\* (vertex, path) = queue.pop(0)
Pop(q) == [vertex |-> q[1].vertex, path |-> q[1].path, rest |-> Tail(q)]

\* the for loop enqueueing (neighbor, path) instead of (neighbor, path + [neighbor])
ForNeighborsStalePath(g, t, vertex, path) ==
    LET nbrs == Nbrs(g, vertex)
        hit  == {i \in 1..Len(nbrs) : nbrs[i] = t}
        upto == IF hit = {} THEN Len(nbrs)
                ELSE (CHOOSE i \in hit : \A j \in hit : i <= j) - 1
    IN  [found |-> hit # {},
         more  |-> [i \in 1..upto |-> [vertex |-> nbrs[i], path |-> path]]]

\* the for loop following only the lightest edges of the vertex
ForNeighborsLightest(g, t, vertex, path) ==
    LET row   == g.adj[vertex]
        least == CHOOSE w \in {row[i].weight : i \in 1..Len(row)} :
                     \A i \in 1..Len(row) : w <= row[i].weight
        light == IF Len(row) = 0 THEN <<>> ELSE SelectSeq(row, LAMBDA e : e.weight = least)
        nbrs  == [i \in 1..Len(light) |-> light[i].nbr]
        hit   == {i \in 1..Len(nbrs) : nbrs[i] = t}
        upto  == IF hit = {} THEN Len(nbrs)
                 ELSE (CHOOSE i \in hit : \A j \in hit : i <= j) - 1
    IN  [found |-> hit # {},
         more  |-> [i \in 1..upto |->
                      [vertex |-> nbrs[i], path |-> Append(path, nbrs[i])]]]

\* "for neighbor in graph[vertex]": whether the goal is among the neighbours,
\* and the entries appended before it is met
ForNeighbors(g, t, vertex, path) ==
    LET nbrs == Nbrs(g, vertex)
        hit  == {i \in 1..Len(nbrs) : nbrs[i] = t}
        upto == IF hit = {} THEN Len(nbrs)
                ELSE (CHOOSE i \in hit : \A j \in hit : i <= j) - 1
    IN  [found |-> hit # {},
         more  |-> [i \in 1..upto |->
                      [vertex |-> nbrs[i], path |-> Append(path, nbrs[i])]]]

\* the expansion with visited.add(vertex) left out
ExpandNoVisited(g, t, b, vertex, path, rest) ==
    LET f == ForNeighbors(g, t, vertex, path)
    IN  [b EXCEPT !.visited  = @,
                  !.queue    = rest \o f.more,
                  !.ret      = IF f.found THEN Append(path, t) ELSE None,
                  !.pc       = IF f.found THEN "returned" ELSE "search",
                  !.enqueued = @ + Len(f.more),
                  !.expanded = Append(@, vertex)]

\* the expansion with "return None" indented into the while loop
ExpandEarlyNone(g, t, b, vertex, path, rest) ==
    LET f == ForNeighbors(g, t, vertex, path)
    IN  [b EXCEPT !.visited  = @ \cup {vertex},
                  !.queue    = rest \o f.more,
                  !.ret      = IF f.found THEN Append(path, t) ELSE None,
                  !.pc       = "returned",
                  !.enqueued = @ + Len(f.more),
                  !.expanded = Append(@, vertex)]

\* visited.add(vertex) and the for loop, for a vertex that is a node
Expand(g, t, b, vertex, path, rest) ==
    LET f == ForNeighbors(g, t, vertex, path)
    IN  [b EXCEPT !.visited  = @ \cup {vertex},
                  !.queue    = rest \o f.more,
                  !.ret      = IF f.found THEN Append(path, t) ELSE None,
                  !.pc       = IF f.found THEN "returned" ELSE "search",
                  !.enqueued = @ + Len(f.more),
                  !.expanded = Append(@, vertex)]

\* one pass of "while queue:", the "return None" behind the loop included;
\* graph[vertex] of a vertex that is no node raises KeyError
BfsStep(g, t, b) ==
    LET e == Pop(b.queue)
        r == IF Len(b.queue) = 0
             THEN [b EXCEPT !.pc = "returned", !.ret = None]
             ELSE IF e.vertex \in b.visited
             THEN [b EXCEPT !.queue = e.rest]
             ELSE IF ~HasNode(g, e.vertex)
             THEN [b EXCEPT !.queue = e.rest, !.visited = @ \cup {e.vertex},
                            !.pc = "KeyError"]
             ELSE Expand(g, t, b, e.vertex, e.path, e.rest)
    IN  [r EXCEPT !.passes = @ + 1]

RECURSIVE BfsLoop(_, _, _)
BfsLoop(g, t, b) == IF Computed(b) /\ b.pc = "search" THEN BfsLoop(g, t, BfsStep(g, t, b)) ELSE b

\* bfs_path(graph, start, goal)
bfs_path(g, s, t) == BfsLoop(g, t, BfsEnter(s)).ret

\* bfs_task((graph_data, start, goal))
bfs_task(data, s, t) == BfsLoop(node_link_graph(data), t, BfsEnter(s)).ret

-----------------------------------------------------------------------------
(* Start-up: my.json is loaded and the graph is built before any request *)

\* the neighbour counts the build is run with; the apps use N_NEIGHBORS
NeighbourCounts == 1..N_NEIGHBORS

Cities(n) == SubSeq(CityNames, 1, n)

\* city_coords, for the city at position i of my.json placed at pos[i]
CityCoords(n, pos) == [c \in Range(Cities(n)) |->
                         pos[CHOOSE i \in 1..n : CityNames[i] = c]]

\* the module-level code of either app, run on n cities
Loaded(n, pos, k) ==
    /\ city_list = Cities(n)
    /\ G = BuildGraph(Cities(n), CityCoords(n, pos), k)
    /\ graph_data = node_link_data(G)

SearchIdle ==
    /\ fn = "none" /\ graph = EmptyGraph /\ start = Unknown /\ goal = Unknown
    /\ visited = {} /\ queue = <<>> /\ ret = None /\ pc = "idle"
    /\ enqueued = 0 /\ expanded = <<>> /\ passes = 0

AppIdle(m) ==
    /\ mode = m /\ start_city = Unknown /\ end_city = Unknown /\ app = "idle"
    /\ task = <<>> /\ results = <<>> /\ calls = 0 /\ warning = FALSE
    /\ session_state = <<>>

\* any list of up to MaxCities cities on the sites, any neighbour count
Init ==
    /\ \E n \in 1..MaxCities : \E pos \in [1..n -> Sites] : \E k \in NeighbourCounts :
         Loaded(n, pos, k)
    /\ SearchIdle
    /\ AppIdle("none")

-----------------------------------------------------------------------------
(* The search, one pass of its loop per step *)

Idents == Range(city_list) \cup {Unknown}

Enter(f, g, s, t) ==
    LET b == BfsEnter(s)
    IN  /\ fn' = f /\ graph' = g /\ start' = s /\ goal' = t
        /\ visited' = b.visited /\ queue' = b.queue /\ ret' = b.ret /\ pc' = b.pc
        /\ enqueued' = b.enqueued /\ expanded' = b.expanded /\ passes' = b.passes
        /\ UNCHANGED builtVars /\ UNCHANGED appVars

\* bfs_path(G, s, t) is called
CallBfsPath ==
    /\ pc = "idle"
    /\ \E s \in Idents : \E t \in Idents : Enter("bfs_path", G, s, t)

\* bfs_task((graph_data, s, t)) is called
CallBfsTask ==
    /\ pc = "idle"
    /\ LET g == node_link_graph(graph_data)
       IN  \E s \in Idents : \E t \in Idents : Enter("bfs_task", g, s, t)

Locals == [visited |-> visited, queue |-> queue, ret |-> ret, pc |-> pc,
           enqueued |-> enqueued, expanded |-> expanded, passes |-> passes]

\* one pass of the while loop of the running search
Step ==
    /\ pc = "search"
    /\ LET b == BfsStep(graph, goal, Locals)
       IN  /\ visited' = b.visited /\ queue' = b.queue /\ ret' = b.ret /\ pc' = b.pc
           /\ enqueued' = b.enqueued /\ expanded' = b.expanded /\ passes' = b.passes
    /\ UNCHANGED <<fn, graph, start, goal>>
    /\ UNCHANGED builtVars /\ UNCHANGED appVars

Next == CallBfsPath \/ CallBfsTask \/ Step

Spec == Init /\ [][Next]_vars

\* the five points of the worked scenario, with two neighbours each
ScenarioCoords == <<<<0, 0>>, <<0, 1>>, <<0, 2>>, <<1, 2>>, <<2, 2>>>>

ScenarioInit ==
    /\ Loaded(Len(ScenarioCoords), ScenarioCoords, 2)
    /\ SearchIdle
    /\ AppIdle("none")

ScenarioSpec == ScenarioInit /\ [][Next]_vars

-----------------------------------------------------------------------------
(* The "Find Path" handlers of the two apps *)

\* "if start_city == end_city" never taken
SameCityNever(s, t) == FALSE

\* if start_city == end_city
SameCity(s, t) == s = t

RECURSIVE RunLoop(_, _, _, _, _)
\* for _ in range(n): path = bfs_path(G, start_city, end_city)
RunLoop(g, s, t, n, r) ==
    IF Computed(r) /\ n = 0 THEN r
    ELSE RunLoop(g, s, t, n - 1, [path |-> bfs_path(g, s, t), calls |-> r.calls + 1])

\* st.session_state["path_result"] = {...}; exec_time is left out
PathResult(path, s, t) ==
    <<[path |-> path, start |-> s, end |-> t, n_runs |-> N_RUNS]>>

\* st.warning("Start and destination must be different.")
Warn(s, t) ==
    /\ start_city' = s /\ end_city' = t
    /\ warning' = TRUE /\ calls' = 0
    /\ UNCHANGED <<mode, app, task, results, session_state>>

\* the button handler of myr_bfs_app.py
FindPathSequential ==
    /\ mode = "sequential" /\ app = "idle"
    /\ \E s \in Range(city_list) : \E t \in Range(city_list) :
         IF SameCity(s, t) THEN Warn(s, t)
         ELSE LET r == RunLoop(G, s, t, N_RUNS, [path |-> None, calls |-> 0])
              IN  /\ start_city' = s /\ end_city' = t
                  /\ warning' = FALSE /\ calls' = r.calls
                  /\ session_state' = PathResult(r.path, s, t)
                  /\ UNCHANGED <<mode, app, task, results>>
    /\ UNCHANGED builtVars /\ UNCHANGED searchVars

\* the button handler of multiprocessing_bfs.py, up to pool.map being entered
FindPathParallel ==
    /\ mode = "parallel" /\ app = "idle"
    /\ \E s \in Range(city_list) : \E t \in Range(city_list) :
         IF SameCity(s, t) THEN Warn(s, t)
         ELSE /\ start_city' = s /\ end_city' = t
              /\ warning' = FALSE /\ calls' = 0
              /\ app' = "pool"
              /\ task' = [i \in 1..N_RUNS |-> "pending"]
              /\ results' = [i \in 1..N_RUNS |-> None]
              /\ UNCHANGED <<mode, session_state>>
    /\ UNCHANGED builtVars /\ UNCHANGED searchVars

Running == {i \in 1..Len(task) : task[i] = "running"}

Pending == {i \in 1..Len(task) : task[i] = "pending"}

\* a free worker of the pool takes the next task of the task queue
WorkerTake ==
    /\ app = "pool" /\ Pending # {} /\ Cardinality(Running) < NumWorkers
    /\ LET i == CHOOSE p \in Pending : \A q \in Pending : p <= q
       IN  task' = [task EXCEPT ![i] = "running"]
    /\ UNCHANGED <<mode, start_city, end_city, app, results, calls, warning, session_state>>
    /\ UNCHANGED builtVars /\ UNCHANGED searchVars

\* a worker finishes bfs_task on its task and hands the result back
WorkerReturn ==
    /\ app = "pool"
    /\ \E i \in Running :
         /\ results' = [results EXCEPT ![i] = bfs_task(graph_data, start_city, end_city)]
         /\ task' = [task EXCEPT ![i] = "done"]
    /\ calls' = calls + 1
    /\ UNCHANGED <<mode, start_city, end_city, app, warning, session_state>>
    /\ UNCHANGED builtVars /\ UNCHANGED searchVars

\* pool.map returning on the first result
PoolMapAnyDone(tk) == \E i \in 1..Len(tk) : tk[i] = "done"

\* results = pool.map(bfs_task, task_args) returns once every task is done
PoolMapDone(tk) == \A i \in 1..Len(tk) : tk[i] = "done"

\* next((res for res in results if res), None)
FirstSuccessful(rs) ==
    LET ok == {i \in 1..Len(rs) : rs[i] # None}
    IN  IF ok = {} THEN None ELSE rs[CHOOSE i \in ok : \A j \in ok : i <= j]

\* the button handler of multiprocessing_bfs.py, from pool.map returning
Collect ==
    /\ app = "pool" /\ PoolMapDone(task)
    /\ session_state' = PathResult(FirstSuccessful(results), start_city, end_city)
    /\ app' = "idle"
    /\ UNCHANGED <<mode, start_city, end_city, task, results, calls, warning>>
    /\ UNCHANGED builtVars /\ UNCHANGED searchVars

FindPath == FindPathSequential \/ FindPathParallel

AppNext == FindPathSequential \/ FindPathParallel \/ WorkerTake \/ WorkerReturn \/ Collect

\* either app as written (N_NEIGHBORS neighbours), on any list of two to m
\* cities on the sites; the destination selectbox opens on index 1, which a
\* list of one city does not have
AppInitOn(m) ==
    /\ \E n \in 2..m : \E pos \in [1..n -> Sites] : Loaded(n, pos, N_NEIGHBORS)
    /\ SearchIdle
    /\ \E a \in {"sequential", "parallel"} : AppIdle(a)

AppInit == AppInitOn(MaxAppCities)

CompareInit == AppInitOn(MaxCompareCities)

AppSpec == AppInit /\ [][AppNext]_vars

CompareSpec == CompareInit /\ [][AppNext]_vars

-----------------------------------------------------------------------------
(* Reference notions the properties are stated with *)

Nodes(g) == Range(g.node)

Adjacent(g, u, v) == \E i \in 1..Len(g.adj[u]) : g.adj[u][i].nbr = v

RECURSIVE Within(_, _, _)
\* the nodes at most d edges away from the set S
Within(g, S, d) ==
    IF d = 0 THEN S
    ELSE Within(g, S \cup {v \in Nodes(g) : \E u \in S : Adjacent(g, u, v)}, d - 1)

Connected(g, s, t) == t \in Within(g, {s}, Len(g.node))

\* the least number of edges of a walk from s to t
HopDist(g, s, t) ==
    CHOOSE d \in 0..Len(g.node) :
        /\ t \in Within(g, {s}, d)
        /\ \A e \in 0..(d - 1) : t \notin Within(g, {s}, e)

IsWalk(g, p) ==
    /\ Len(p) >= 1
    /\ \A i \in 1..(Len(p) - 1) : p[i] \in Nodes(g) /\ Adjacent(g, p[i], p[i + 1])

WeightOf(g, u, v) == g.adj[u][CHOOSE i \in 1..Len(g.adj[u]) : g.adj[u][i].nbr = v].weight

RECURSIVE WalkWeight(_, _)
WalkWeight(g, p) ==
    IF Len(p) < 2 THEN 0 ELSE WeightOf(g, p[1], p[2]) + WalkWeight(g, Tail(p))

\* g with every weight replaced by 0
Unweighted(g) ==
    [g EXCEPT !.adj = [u \in DOMAIN g.adj |->
                         [i \in 1..Len(g.adj[u]) |-> [nbr |-> g.adj[u][i].nbr, weight |-> 0]]]]

NoDuplicates(q) == \A i, j \in 1..Len(q) : q[i] = q[j] => i = j

Returned == pc = "returned"

KnownPair == start \in Nodes(graph) /\ goal \in Nodes(graph) /\ start # goal

-----------------------------------------------------------------------------
(* Properties of the search *)

\* C1: a path returned for two distinct nodes has as many edges as the least
\* number of hops between them, and the same path is returned whatever the
\* weights are.
C1_ShortestByHops ==
    (Returned /\ KnownPair /\ ret # None) =>
        /\ Len(ret) - 1 = HopDist(graph, start, goal)
        /\ bfs_path(Unweighted(graph), start, goal) = ret

\* a two-hop path was returned although a three-hop walk is lighter
C1_Witness ==
    /\ Returned /\ KnownPair /\ Len(ret) = 3
    /\ \E m1, m2 \in Nodes(graph) :
         /\ IsWalk(graph, <<start, m1, m2, goal>>)
         /\ WalkWeight(graph, <<start, m1, m2, goal>>) < WalkWeight(graph, ret)

\* C2: for two distinct nodes a path is returned iff they are connected, and
\* None is returned exactly when the frontier is empty and no expanded node
\* has the goal as a neighbour.
C2_PathIffConnected ==
    (Returned /\ KnownPair) =>
        /\ (ret # None) <=> Connected(graph, start, goal)
        /\ (ret = None) <=>
             /\ queue = <<>>
             /\ \A v \in Range(expanded) : ~Adjacent(graph, v, goal)

\* None was returned for two known nodes after more than one expansion
C2_Witness == Returned /\ KnownPair /\ ret = None /\ Len(expanded) >= 2

\* C5: the built graph has no self-loop and no repeated neighbour, is
\* undirected, has exactly the cities as nodes, and has no isolated node
\* unless there is a single city.
C5_WellFormed ==
    /\ NoDuplicates(G.node)
    /\ Nodes(G) = Range(city_list)
    /\ \A u \in Nodes(G) :
         /\ ~Adjacent(G, u, u)
         /\ NoDuplicates(Nbrs(G, u))
         /\ \A v \in Nodes(G) : Adjacent(G, u, v) => Adjacent(G, v, u)
         /\ Len(city_list) >= 2 => Len(G.adj[u]) >= 1
    /\ Len(city_list) = 1 => (Len(G.node) = 1 /\ \A u \in Nodes(G) : G.adj[u] = <<>>)

\* two cities, each the other's nearest neighbour, joined by one edge
C5_Witness ==
    /\ Len(city_list) = 2
    /\ Nbrs(G, "A") = <<"B">>
    /\ Nbrs(G, "B") = <<"A">>

\* C6: a search given a start or a goal that is no node ends in an error.
C6_UnknownIdentifierFails ==
    (pc \in {"returned", "KeyError"} /\ (start \notin Nodes(graph) \/ goal \notin Nodes(graph)))
        => pc = "KeyError"

\* C7: every frontier entry holds a walk from start to its vertex, and a
\* returned path is a walk from start to goal.
C7_PathsAreWalks ==
    /\ \A i \in 1..Len(queue) :
         /\ IsWalk(graph, queue[i].path)
         /\ queue[i].path[1] = start
         /\ Last(queue[i].path) = queue[i].vertex
    /\ (Returned /\ ret # None) =>
         /\ IsWalk(graph, ret)
         /\ ret[1] = start
         /\ Last(ret) = goal

\* a frontier entry three nodes long, and a path returned
C7_Witness ==
    /\ Returned /\ ret # None /\ Len(ret) >= 4
    /\ \E i \in 1..Len(queue) : Len(queue[i].path) >= 3

RECURSIVE SumDegrees(_, _)
SumDegrees(g, q) ==
    IF Len(q) = 0 THEN 0 ELSE Len(g.adj[q[1]]) + SumDegrees(g, Tail(q))

NumEdges(g) == SumDegrees(g, g.node) \div 2

\* C10: a search from a known start ends within 2 + 2|E| passes of its loop
\* (Step, enabled while pc = "search", adds one to passes): every pass but the
\* last consumes a frontier entry, no node is expanded
\* twice, an entry of a visited node is dropped without enqueueing, so the
\* entries ever enqueued are 1 plus the degrees of the expanded nodes at most.
C10_Terminates ==
    (pc # "idle" /\ start \in Nodes(graph)) =>
        /\ NoDuplicates(expanded)
        /\ Range(expanded) = visited
        /\ enqueued <= 1 + SumDegrees(graph, expanded)
        /\ passes <= enqueued + 1
        /\ passes <= 2 + 2 * NumEdges(graph)
        /\ pc \in {"search", "returned"}
        /\ pc = "search" =>
             /\ enqueued = 1 + SumDegrees(graph, expanded)
             /\ passes + Len(queue) = enqueued

\* a search has ended after dropping entries of visited nodes
C10_Witness ==
    /\ Returned /\ start \in Nodes(graph)
    /\ passes > Len(expanded) + 1

-----------------------------------------------------------------------------
(* Properties of the worked scenario *)

ScenarioEdges ==
    /\ Adjacent(G, "A", "B") /\ Adjacent(G, "B", "C")
    /\ Adjacent(G, "C", "D") /\ Adjacent(G, "D", "E")

\* C4 as stated: the graph holds A-B, B-C, C-D, D-E and the search from A to E
\* returns [A, B, C, D, E].
C4_AsStated ==
    /\ ScenarioEdges
    /\ (Returned /\ start = "A" /\ goal = "E") => ret = <<"A", "B", "C", "D", "E">>

\* C4, amended: the graph holds A-B, B-C, C-D, D-E and also A-C and C-E, and
\* the search from A to E returns [A, C, E].
C4_Scenario ==
    /\ ScenarioEdges
    /\ Adjacent(G, "A", "C") /\ Adjacent(G, "C", "E")
    /\ (Returned /\ start = "A" /\ goal = "E") => ret = <<"A", "C", "E">>

\* the search from A to E has returned
C4_Witness == Returned /\ start = "A" /\ goal = "E" /\ ret # None

-----------------------------------------------------------------------------
(* Properties of the benchmark handlers *)

\* what the handler of myr_bfs_app.py reports for a query
SequentialReport(s, t) == RunLoop(G, s, t, N_RUNS, [path |-> None, calls |-> 0]).path

\* what the handler of multiprocessing_bfs.py reports for a query
ParallelReport(s, t) == FirstSuccessful([i \in 1..N_RUNS |-> bfs_task(graph_data, s, t)])

\* C3: the path either app has stored is the path the other app reports for
\* the same query.
C3_SamePathInBothModes ==
    session_state # <<>> =>
        LET r == session_state[1]
        IN  /\ r.path = SequentialReport(r.start, r.end)
            /\ r.path = ParallelReport(r.start, r.end)

\* C8: a request with start equal to goal shows the warning, runs no search
\* and leaves the stored result as it was.
C8_SameCityRejected ==
    [][(FindPath /\ start_city' = end_city') =>
          /\ warning' /\ calls' = 0 /\ app' = "idle"
          /\ session_state' = session_state]_vars

\* the warning is shown while the result of an earlier request is stored
C8_Witness ==
    /\ warning /\ start_city = end_city /\ calls = 0
    /\ session_state # <<>> /\ session_state[1].path # None

\* the result lists the selection is tried on, beside the collected one
MixedResults == [1..N_RUNS -> {None, <<start_city, end_city>>}]

Selects(rs, p) ==
    /\ p = None <=> \A i \in 1..Len(rs) : rs[i] = None
    /\ p # None => p \in Range(rs)

\* C9: the parallel handler stores its result only when all N_RUNS results
\* are in, and the stored path is None only if every result is None and is
\* one of the results otherwise.
C9_StoresAfterJoin ==
    [][(app = "pool" /\ app' = "idle") =>
          /\ \A i \in 1..N_RUNS : task[i] = "done"
          /\ calls = N_RUNS
          /\ Selects(results, session_state'[1].path)
          /\ \A rs \in MixedResults : Selects(rs, FirstSuccessful(rs))]_vars

\* the parallel handler has stored a path after all its runs were made
C9_Witness ==
    /\ mode = "parallel" /\ app = "idle" /\ calls = N_RUNS
    /\ session_state # <<>> /\ session_state[1].path # None
    /\ session_state[1].start = start_city /\ session_state[1].end = end_city

====
